---- MODULE Spec2Model ----
(***************************************************************************)
(* A model of FileIOBenchmark (src/file_io_benchmark.py): the scratch      *)
(* directory, the six workload primitives, run_benchmark_suite,            *)
(* run_multiple_benchmarks and the aggregation of _save_all_results.       *)
(*                                                                         *)
(* Sizes are counted in KiB wherever the suite's own sizes are used (every *)
(* size the suite passes is a multiple of 1 KiB: 4096 B = 4, 64 KiB = 64,  *)
(* 10 MiB = 10240, ...); durations are counted in clock ticks.  Floating   *)
(* point values are modelled as exact fractions [num, den].                *)
(***************************************************************************)
EXTENDS Integers, Sequences, FiniteSets, TLC

VARIABLES
    fs,         \* what is at the scratch path self.test_dir
    data_size,  \* int(self.data_size_gb * 1024^3), in KiB
    results,    \* self.results
    all_runs,   \* self.all_runs
    pc,         \* position of the running method
    mode,       \* which caller awaits run_benchmark_suite
    num_runs,   \* argument of run_multiple_benchmarks
    run_i,      \* loop variable i of run_multiple_benchmarks
    base_len,   \* len(self.all_runs) when run_multiple_benchmarks was called
    w,          \* index of the next workload of the suite
    tick,       \* ticks the clock advances during one primitive call of this run
    log,        \* the steps executed since run_benchmark_suite was entered
    exc,        \* the exception in flight or delivered to the caller
    outcome,    \* how the last call ended for the caller
    report,     \* the content of benchmark_results.json
    saves,      \* how often the running session wrote the report
    call,       \* the last direct call of a workload primitive and what it did
    results_id, \* which dict object self.results is bound to
    run_ids,    \* which dict object each entry of self.all_runs is
    peer        \* which process is running, and the state of the other one

vars == <<fs, data_size, results, all_runs, pc, mode, num_runs, run_i,
          base_len, w, tick, log, exc, outcome, report, saves, call,
          results_id, run_ids,
          peer>>

(***************************************************************************)
(* Bounds of the model.                                                    *)
(***************************************************************************)
MaxRuns == 2        \* num_runs ranges over 0..MaxRuns
MaxElapsed == 1     \* a primitive call takes 0..MaxElapsed ticks
MaxSize == 4        \* file_size of a direct primitive call ranges over 0..MaxSize
MaxBlock == 2       \* block_size of a direct primitive call ranges over 0..MaxBlock
MaxOps == 2         \* num_operations of a direct primitive call ranges over 0..MaxOps
MaxFiles == 2       \* num_files of a direct primitive call ranges over 0..MaxFiles
MaxClock == 2       \* time.time() reads 0..MaxClock around a direct primitive call
MaxSeries == 3      \* an arbitrary run history holds 0..MaxSeries runs
\* a session starts only while all_runs stays this short
MaxHistory == MaxRuns

NoExc == [type |-> "none"]
\* a single process: the one running is number 1 and there is no other
NoPeer == [id |-> 1, same_cwd |-> TRUE, other |-> [kind |-> "nothing"]]
Nothing == [kind |-> "nothing"]

(***************************************************************************)
(* Exact fractions for Python's float results.                             *)
(***************************************************************************)
Abs(x) == IF x < 0 THEN -x ELSE x

RECURSIVE GCD(_, _)
GCD(a, b) == IF b = 0 THEN a ELSE GCD(b, a % b)

Rat(n, d) ==
    LET g == GCD(Abs(n), d)
    IN  IF n = 0 THEN [num |-> 0, den |-> 1] ELSE [num |-> n \div g, den |-> d \div g]

Num(n) == [num |-> n, den |-> 1]
RatAdd(a, b) == Rat(a.num * b.den + b.num * a.den, a.den * b.den)
RatLeq(a, b) == a.num * b.den <= b.num * a.den
RatLess(a, b) == a.num * b.den < b.num * a.den
\* x / y for y > 0
Div(x, y) == Rat(x, y)
Str(s) == [str |-> s]
\* isinstance(value, (int, float))
IsNumeric(v) == "num" \in DOMAIN v

(***************************************************************************)
(* The scratch path.  kind: nothing there, a directory, or a non-directory.*)
(* denied: the process may neither list or empty the directory nor create  *)
(* or remove an entry at the path.  files: the names in the directory, a   *)
(* name being <<stem, number, suffix>>.                                    *)
(***************************************************************************)
Name(stem, i, suffix) == <<stem, i, suffix>>
\* a file name that does not use the index
SmallFile_same(i) == Name("small_file_", 0, ".bin")
\* f"small_file_{i}.bin"
SmallFile(i) == Name("small_file_", i, ".bin")
SeqWriteFile == Name("sequential_write_test", 0, ".bin")
SeqReadFile == Name("sequential_read_test", 0, ".bin")
RandWriteFile == Name("random_write_test", 0, ".bin")
RandReadFile == Name("random_read_test", 0, ".bin")

exists(f) == f.kind # "absent"

OsError(type, what) == [type |-> type, what |-> what]

\* shutil.rmtree(self.test_dir)
rmtree(f) ==
    IF f.kind = "file" THEN [exc |-> OsError("NotADirectoryError", "rmtree"), fs |-> f]
    ELSE IF f.denied THEN [exc |-> OsError("PermissionError", "rmtree"), fs |-> f]
    ELSE [exc |-> NoExc, fs |-> [f EXCEPT !.kind = "absent", !.files = {}]]

\* self.test_dir.mkdir(parents=True)
mkdir(f) ==
    IF exists(f) THEN [exc |-> OsError("FileExistsError", "mkdir"), fs |-> f]
    ELSE IF f.denied THEN [exc |-> OsError("PermissionError", "mkdir"), fs |-> f]
    ELSE [exc |-> NoExc, fs |-> [f EXCEPT !.kind = "dir", !.files = {}]]

\* setup that ignores the errors of rmtree and mkdir
setup_ignore(f) ==
    LET r == IF exists(f) THEN rmtree(f) ELSE mkdir(f)
        q == IF exists(f) /\ r.exc = NoExc THEN mkdir(r.fs) ELSE r
    IN  [exc |-> NoExc, fs |-> q.fs]

\* setup that keeps a directory it finds
setup_keep(f) ==
    IF f.kind = "dir" /\ ~f.denied THEN [exc |-> NoExc, fs |-> f] ELSE mkdir(f)

\* FileIOBenchmark.setup
setup(f) ==
    IF exists(f)
    THEN LET r == rmtree(f) IN IF r.exc # NoExc THEN r ELSE mkdir(r.fs)
    ELSE mkdir(f)

\* cleanup that removes nothing
cleanup_skip(f) == [exc |-> NoExc, fs |-> f]

\* FileIOBenchmark.cleanup
cleanup(f) == IF exists(f) THEN rmtree(f) ELSE [exc |-> NoExc, fs |-> f]

(***************************************************************************)
(* The workload primitives.  Each takes the scratch path f, its arguments, *)
(* the two readings of time.time() and the environment's fault: {}, or {k} *)
(* when the k-th I/O operation of the timed region raises OSError.         *)
(* Each yields the exception raised (NoExc when it returns), the scratch   *)
(* path afterwards, and the dictionary it returns.                         *)
(***************************************************************************)
\* an exception replaced by a generic one on its way out
Raise_generic(e, f) ==
    [exc |-> [type |-> "Exception", what |-> e.what], fs |-> f, ret |-> Nothing]

\* the exception e leaves the primitive as it was raised
Raise(e, f) == [exc |-> e, fs |-> f, ret |-> Nothing]
WithFile(f, name) == [f EXCEPT !.files = @ \cup {name}]
WithoutFile(f, name) == [f EXCEPT !.files = @ \ {name}]
\* open(filepath, 'wb') needs the directory
CanOpen(f) == f.kind = "dir"
NoDir(what) == OsError("FileNotFoundError", what)
IoError(what) == OsError("OSError", what)
Max(a, b) == IF a < b THEN b ELSE a

\* self._format_speed(speed): a text, not a number
_format_speed(speed) == Str(speed)

\* x / elapsed if elapsed > 0 else 0
PerElapsed(x, elapsed) == IF elapsed > 0 THEN Div(x, elapsed) ELSE Num(0)

\* (elapsed / n * 1000) if n > 0 else 0
MsPer(elapsed, n) == IF n > 0 THEN Div(elapsed * 1000, n) ELSE Num(0)

\* bytes the loop "for _ in range(file_size // block_size): f.write(data_block)" writes
BytesWritten(file_size, block_size) == Max(file_size \div block_size, 0) * block_size

test_sequential_write(f, file_size, block_size, start, end, fault) ==
    LET what == "test_sequential_write"
        elapsed == end - start
        speed == PerElapsed(file_size, elapsed)
    IN  IF block_size < 0 THEN Raise(OsError("ValueError", what), f)
        ELSE IF block_size = 0 THEN Raise(OsError("ZeroDivisionError", what), f)
        ELSE IF ~CanOpen(f) THEN Raise(NoDir(what), f)
        ELSE IF fault # {} THEN Raise(IoError(what), WithFile(f, SeqWriteFile))
        ELSE [exc |-> NoExc,
              fs |-> WithoutFile(f, SeqWriteFile),
              written |-> BytesWritten(file_size, block_size),
              ret |-> [duration_sec |-> Num(elapsed),
                       speed_bytes_per_sec |-> speed,
                       speed_formatted |-> _format_speed(speed)]]

test_sequential_read(f, file_size, block_size, start, end, fault) ==
    LET what == "test_sequential_read"
        elapsed == end - start
        speed == PerElapsed(file_size, elapsed)
    IN  IF block_size < 0 THEN Raise(OsError("ValueError", what), f)
        ELSE IF block_size = 0 THEN Raise(OsError("ZeroDivisionError", what), f)
        ELSE IF ~CanOpen(f) THEN Raise(NoDir(what), f)
        ELSE IF fault # {} THEN Raise(IoError(what), WithFile(f, SeqReadFile))
        ELSE [exc |-> NoExc,
              fs |-> WithoutFile(f, SeqReadFile),
              written |-> BytesWritten(file_size, block_size),
              ret |-> [duration_sec |-> Num(elapsed),
                       speed_bytes_per_sec |-> speed,
                       speed_formatted |-> _format_speed(speed)]]

\* the bound of the draw with max_offset = file_size
MaxDraw_wide(file_size, block_size) == file_size \div block_size

\* the largest k that random.randint(0, max_offset // block_size) can draw
MaxDraw(file_size, block_size) == (file_size - block_size) \div block_size

\* offset = random.randint(0, max_offset // block_size) * block_size
Offset(draw, block_size) == draw * block_size

\* a flush after every write
Flushes_each(what, num_operations) == num_operations

\* f.flush(); os.fsync(f.fileno()): once after the loop of test_random_write,
\* before the second clock reading; test_random_read has none
Flushes(what, num_operations) == IF what = "test_random_write" THEN 1 ELSE 0

\* the latencies measured for the single operations: the loop reads no clock,
\* the only readings are taken before the loop and after the flush
LatencySamples(num_operations) == <<>>

\* the part shared by test_random_write and test_random_read
RandomAccess(what, name, f, file_size, num_operations, block_size, start, end, fault) ==
    LET elapsed == end - start
    IN  IF ~CanOpen(f) THEN Raise(NoDir(what), f)
        ELSE IF what = "test_random_write" /\ file_size < 1
             THEN Raise(OsError("OSError", what), WithFile(f, name))
        ELSE IF block_size < 0 \/ (what = "test_random_read" /\ file_size < 0)
             THEN Raise(OsError("ValueError", what), WithFile(f, name))
        ELSE IF num_operations > 0 /\ block_size = 0
             THEN Raise(OsError("ZeroDivisionError", what), WithFile(f, name))
        ELSE IF num_operations > 0 /\ MaxDraw(file_size, block_size) < 0
             THEN Raise(OsError("ValueError", what), WithFile(f, name))
        ELSE IF fault # {} THEN Raise(IoError(what), WithFile(f, name))
        ELSE [exc |-> NoExc,
              fs |-> WithoutFile(f, name),
              accesses |-> Max(num_operations, 0),
              flushes |-> Flushes(what, num_operations),
              samples |-> LatencySamples(num_operations),
              ret |-> [duration_sec |-> Num(elapsed),
                       iops |-> PerElapsed(num_operations, elapsed),
                       avg_latency_ms |-> MsPer(elapsed, num_operations),
                       operations |-> Num(num_operations)]]

test_random_write(f, file_size, num_operations, block_size, start, end, fault) ==
    RandomAccess("test_random_write", RandWriteFile, f, file_size, num_operations,
                 block_size, start, end, fault)

test_random_read(f, file_size, num_operations, block_size, start, end, fault) ==
    RandomAccess("test_random_read", RandReadFile, f, file_size, num_operations,
                 block_size, start, end, fault)

test_file_creation(f, num_files, file_size, start, end, fault) ==
    LET what == "test_file_creation"
        elapsed == end - start
    IN  IF file_size < 0 THEN Raise(OsError("ValueError", what), f)
        ELSE IF num_files > 0 /\ ~CanOpen(f) THEN Raise(NoDir(what), f)
        ELSE IF num_files > 0 /\ fault # {}
             THEN LET at == CHOOSE i \in fault : TRUE
                      k == IF at < num_files THEN at ELSE num_files - 1
                  IN  Raise(IoError(what),
                            [f EXCEPT !.files = @ \cup {SmallFile(i) : i \in 0..k}])
        ELSE [exc |-> NoExc,
              fs |-> [f EXCEPT !.files = @ \cup {SmallFile(i) : i \in 0..(num_files - 1)}],
              ret |-> [duration_sec |-> Num(elapsed),
                       files_created |-> Num(num_files),
                       files_per_sec |-> PerElapsed(num_files, elapsed),
                       avg_time_per_file_ms |-> MsPer(elapsed, num_files)]]

\* self.test_dir.glob("small_file_*.bin")
glob(f) ==
    IF f.kind = "dir" THEN {n \in f.files : n[1] = "small_file_" /\ n[3] = ".bin"} ELSE {}

\* the count taken from the argument
actual_count_nominal(files, num_files) == num_files

\* actual_count = len(files)
actual_count(files, num_files) == Cardinality(files)

test_file_deletion(f, num_files, start, end, fault) ==
    LET what == "test_file_deletion"
        files == glob(f)
        count == actual_count(files, num_files)
        elapsed == end - start
    IN  IF files # {} /\ fault # {} THEN Raise(IoError(what), f)
        ELSE [exc |-> NoExc,
              fs |-> IF f.kind = "dir" THEN [f EXCEPT !.files = @ \ files] ELSE f,
              ret |-> [duration_sec |-> Num(elapsed),
                       files_deleted |-> Num(count),
                       files_per_sec |-> PerElapsed(count, elapsed),
                       avg_time_per_file_ms |-> MsPer(elapsed, count)]]

(***************************************************************************)
(* run_benchmark_suite: the configurations and the fourteen workloads.     *)
(***************************************************************************)
MiB == 1024
GiB == 1024 * MiB
\* block_size default of the sequential primitives, 64*1024
SeqBlock == 64
\* block_size default of the random primitives, 4096
RandBlock == 4
\* test_file_creation(5000, 4096) and test_file_deletion(5000)
SmallFileSize == 4
SuiteFiles == 5000

\* (name, size, num_files) of test_configs
test_configs(total_data_size) ==
    << [size |-> 10 * MiB, num_files |-> total_data_size \div (10 * MiB)],
       [size |-> 100 * MiB, num_files |-> total_data_size \div (100 * MiB)],
       [size |-> 500 * MiB, num_files |-> total_data_size \div (500 * MiB)],
       [size |-> 1024 * MiB, num_files |-> total_data_size \div (1024 * MiB)] >>

random_test_configs ==
    << [size |-> 100 * MiB, ops |-> 5000],
       [size |-> 500 * MiB, ops |-> 10000] >>

\* a suite that deletes the small files before it creates them
Workloads_swapped ==
    << [kind |-> "seq_write", c |-> 1], [kind |-> "seq_write", c |-> 2],
       [kind |-> "seq_write", c |-> 3], [kind |-> "seq_write", c |-> 4],
       [kind |-> "seq_read", c |-> 1], [kind |-> "seq_read", c |-> 2],
       [kind |-> "seq_read", c |-> 3], [kind |-> "seq_read", c |-> 4],
       [kind |-> "rand_write", c |-> 1], [kind |-> "rand_write", c |-> 2],
       [kind |-> "rand_read", c |-> 1], [kind |-> "rand_read", c |-> 2],
       [kind |-> "file_deletion", c |-> 1], [kind |-> "file_creation", c |-> 1] >>

\* the workloads of one run in program order
Workloads ==
    << [kind |-> "seq_write", c |-> 1], [kind |-> "seq_write", c |-> 2],
       [kind |-> "seq_write", c |-> 3], [kind |-> "seq_write", c |-> 4],
       [kind |-> "seq_read", c |-> 1], [kind |-> "seq_read", c |-> 2],
       [kind |-> "seq_read", c |-> 3], [kind |-> "seq_read", c |-> 4],
       [kind |-> "rand_write", c |-> 1], [kind |-> "rand_write", c |-> 2],
       [kind |-> "rand_read", c |-> 1], [kind |-> "rand_read", c |-> 2],
       [kind |-> "file_creation", c |-> 1], [kind |-> "file_deletion", c |-> 1] >>

\* a key made of the kind of workload alone
TestId_kind(wl, total) == <<wl.kind>>

\* the key under which a workload stores its result in self.results
TestId(wl, total) ==
    CASE wl.kind = "seq_write" -> <<"seq_write_", test_configs(total)[wl.c].size>>
      [] wl.kind = "seq_read" -> <<"seq_read_", test_configs(total)[wl.c].size>>
      [] wl.kind = "rand_write" -> <<"rand_write_", random_test_configs[wl.c].size>>
      [] wl.kind = "rand_read" -> <<"rand_read_", random_test_configs[wl.c].size>>
      [] wl.kind = "file_creation" -> <<"file_creation">>
      [] wl.kind = "file_deletion" -> <<"file_deletion">>

\* one size class of the sequential ladder: num_files calls of the primitive,
\* each taking d ticks, the call numbered by fault (if any) raising
SeqClass(kind, f, cfg, d, fault) ==
    LET one(ft) == IF kind = "seq_write"
                   THEN test_sequential_write(f, cfg.size, SeqBlock, 0, d, ft)
                   ELSE test_sequential_read(f, cfg.size, SeqBlock, 0, d, ft)
        ok == one({})
        total_time == cfg.num_files * ok.ret.duration_sec.num
        total_bytes == cfg.num_files * cfg.size
        avg_speed == PerElapsed(total_bytes, total_time)
    IN  IF cfg.num_files <= 0
        THEN [exc |-> NoExc, fs |-> f,
              ret |-> [duration_sec |-> Num(0), speed_bytes_per_sec |-> Num(0),
                       speed_formatted |-> _format_speed(Num(0)),
                       num_files |-> Num(cfg.num_files), total_bytes |-> Num(0)]]
        ELSE IF ok.exc # NoExc THEN ok
        ELSE IF fault # {} THEN one(fault)
        ELSE [exc |-> NoExc, fs |-> ok.fs,
              ret |-> [duration_sec |-> Num(total_time),
                       speed_bytes_per_sec |-> avg_speed,
                       speed_formatted |-> _format_speed(avg_speed),
                       num_files |-> Num(cfg.num_files),
                       total_bytes |-> Num(total_bytes)]]

\* what the suite does for workload wl: the primitive's outcome and the entry
\* stored in self.results
RunWorkload(wl, f, total, d, fault) ==
    CASE wl.kind \in {"seq_write", "seq_read"} ->
            SeqClass(wl.kind, f, test_configs(total)[wl.c], d, fault)
      [] wl.kind = "rand_write" ->
            test_random_write(f, random_test_configs[wl.c].size,
                              random_test_configs[wl.c].ops, RandBlock, 0, d, fault)
      [] wl.kind = "rand_read" ->
            test_random_read(f, random_test_configs[wl.c].size,
                             random_test_configs[wl.c].ops, RandBlock, 0, d, fault)
      [] wl.kind = "file_creation" ->
            test_file_creation(f, SuiteFiles, SmallFileSize, 0, d, fault)
      [] wl.kind = "file_deletion" ->
            test_file_deletion(f, SuiteFiles, 0, d, fault)

\* self.results bound again to the dict it was bound to
FreshDict_reuse(ids, current) == current

\* self.results = {}: a new dict object, which is none of the objects that
\* the entries of self.all_runs refer to (the first identity not among them)
FreshDict(ids, current) ==
    CHOOSE n \in 1..(Len(ids) + 1) :
        /\ \A i \in 1..Len(ids) : ids[i] # n
        /\ \A k \in 1..(n - 1) : \E i \in 1..Len(ids) : ids[i] = k

\* self.all_runs after the dict object id has been given the content value:
\* a change of an object shows in every entry that refers to it
Aliased(runs, ids, id, value) ==
    [i \in 1..Len(runs) |-> IF ids[i] = id THEN value ELSE runs[i]]

\* self.results[key] = value
Put(dict, key, value) ==
    [k \in DOMAIN dict \cup {key} |-> IF k = key THEN value ELSE dict[k]]

EmptyDict == [k \in {} |-> Nothing]

(***************************************************************************)
(* Aggregation: _save_all_results and _calculate_statistics.               *)
(***************************************************************************)
Last(s) == s[Len(s)]
Failed(what) == [error |-> what]
IsError(v) == "error" \in DOMAIN v

RECURSIVE SumSeq(_)
SumSeq(values) ==
    IF values = <<>> THEN Num(0) ELSE RatAdd(Head(values), SumSeq(Tail(values)))

\* statistics.mean(values)
statistics_mean(values) ==
    IF values = <<>> THEN Failed("StatisticsError")
    ELSE LET t == SumSeq(values) IN Rat(t.num, t.den * Len(values))

\* statistics.stdev(values): defined for two values and more; its value, a
\* square root, is kept as the term stdev(values)
statistics_stdev(values) ==
    IF Len(values) < 2 THEN Failed("StatisticsError")
    ELSE [stdev_of |-> values]

\* the same without the guard on the length
_calculate_statistics_unguarded(values) ==
    IF values = <<>> THEN [mean |-> Num(0), std_dev |-> Num(0)]
    ELSE [mean |-> statistics_mean(values), std_dev |-> statistics_stdev(values)]

_calculate_statistics(values) ==
    IF values = <<>> THEN [mean |-> Num(0), std_dev |-> Num(0)]
    ELSE [mean |-> statistics_mean(values),
          std_dev |-> IF Len(values) > 1 THEN statistics_stdev(values) ELSE Num(0)]

RECURSIVE SeqMin(_)
SeqMin(values) ==
    IF Len(values) = 1 THEN values[1]
    ELSE LET m == SeqMin(Tail(values))
         IN  IF RatLeq(Head(values), m) THEN Head(values) ELSE m

RECURSIVE SeqMax(_)
SeqMax(values) ==
    IF Len(values) = 1 THEN values[1]
    ELSE LET m == SeqMax(Tail(values))
         IN  IF RatLess(m, Head(values)) THEN Head(values) ELSE m

\* a minimum that takes the first value
min_first(values) == IF values = <<>> THEN Failed("ValueError") ELSE values[1]

\* min(values), max(values)
min(values) == IF values = <<>> THEN Failed("ValueError") ELSE SeqMin(values)
max(values) == IF values = <<>> THEN Failed("ValueError") ELSE SeqMax(values)

\* the runs of the history that hold a number for metric_name of test_name
HasMetric(run, test_name, metric_name) ==
    /\ test_name \in DOMAIN run
    /\ metric_name \in DOMAIN run[test_name]
    /\ IsNumeric(run[test_name][metric_name])

\* a collection that keeps only the latest value
RECURSIVE Collect_latest(_, _, _)
Collect_latest(runs, test_name, metric_name) ==
    IF runs = <<>> THEN <<>>
    ELSE IF HasMetric(Last(runs), test_name, metric_name)
    THEN <<Last(runs)[test_name][metric_name]>>
    ELSE Collect_latest(SubSeq(runs, 1, Len(runs) - 1), test_name, metric_name)

\* metrics[test_name][metric_name], the values appended run by run
RECURSIVE Collect(_, _, _)
Collect(runs, test_name, metric_name) ==
    IF runs = <<>> THEN <<>>
    ELSE (IF HasMetric(Head(runs), test_name, metric_name)
          THEN <<Head(runs)[test_name][metric_name]>> ELSE <<>>)
         \o Collect(Tail(runs), test_name, metric_name)

TestNames(runs) == UNION {DOMAIN runs[i] : i \in 1..Len(runs)}

\* the metric names of the first run that has the test
MetricNames_first(runs, test_name) ==
    LET i == CHOOSE j \in 1..Len(runs) :
                 /\ test_name \in DOMAIN runs[j]
                 /\ \A k \in 1..(j - 1) : test_name \notin DOMAIN runs[k]
    IN  {m \in DOMAIN runs[i][test_name] : HasMetric(runs[i], test_name, m)}

MetricNames(runs, test_name) ==
    {m \in UNION {DOMAIN runs[i][test_name] :
                     i \in {j \in 1..Len(runs) : test_name \in DOMAIN runs[j]}} :
        \E i \in 1..Len(runs) : HasMetric(runs[i], test_name, m)}

AggregatedStat(values) ==
    LET stats == _calculate_statistics(values)
    IN  [mean |-> stats.mean, std_dev |-> stats.std_dev,
         min |-> min(values), max |-> max(values), values |-> values]

\* aggregated_stats of _save_all_results
aggregated_stats(runs) ==
    [t \in TestNames(runs) |->
        [m \in MetricNames(runs, t) |-> AggregatedStat(Collect(runs, t, m))]]

\* some statistic of the aggregation raised
AggregationError(agg) ==
    \E t \in DOMAIN agg : \E m \in DOMAIN agg[t] :
        \E k \in {"mean", "std_dev", "min", "max"} : IsError(agg[t][m][k])

\* the test_dir argument each process gives its object: two distinct paths
TestDirOf(id) == IF id = 1 THEN "benchmark_temp" ELSE "benchmark_temp_2"

\* self.test_dir of the process that is running
test_dir == TestDirOf(peer.id)

\* results_with_metadata
results_with_metadata(runs) ==
    [timestamp |-> Str("strftime"),
     test_directory |-> Str(test_dir),
     num_runs |-> Len(runs),
     aggregated_statistics |-> aggregated_stats(runs),
     all_runs |-> runs]

\* generate_plots.main: test_name = data.get('name', 'Unknown'), the key under
\* which the plots file a loaded report
PlotKey(data) == IF "name" \in DOMAIN data THEN data.name ELSE "Unknown"

(***************************************************************************)
(* The session: a caller drives one FileIOBenchmark object.                *)
(***************************************************************************)
Path(kind, files, denied) == [kind |-> kind, files |-> files, denied |-> denied]

\* what may be at the scratch path before the object is used
InitialPaths ==
    { Path("absent", {}, FALSE), Path("absent", {}, TRUE),
      Path("dir", {}, FALSE),
      Path("dir", {SmallFile(0), SmallFile(7), SeqWriteFile}, FALSE),
      Path("dir", {SmallFile(0)}, TRUE),
      Path("file", {}, FALSE) }

\* data_size_gb = 1.0, as main() constructs the object
SessionDataSizes == {GiB}

\* the faults the environment may inject into a workload
FaultChoices == {{}, {0}, {2}}

NoCall == [prim |-> "none"]

Init ==
    /\ fs \in InitialPaths
    /\ data_size \in SessionDataSizes
    /\ results = EmptyDict
    /\ all_runs = <<>>
    /\ pc = "idle"
    /\ mode = "none"
    /\ num_runs = 0
    /\ run_i = 0
    /\ base_len = 0
    /\ w = 1
    /\ tick = 0
    /\ log = <<>>
    /\ exc = NoExc
    /\ outcome = "none"
    /\ report = Nothing
    /\ saves = 0
    /\ call = NoCall
    /\ results_id = 1
    /\ run_ids = <<>>
    /\ peer = NoPeer

\* the caller may call a method of the object when none is running; an
\* exception that reached the caller ends the program, as it does in main()
CallerReady == pc = "idle" /\ outcome # "raised"

\* the caller calls run_multiple_benchmarks(n)
CallRunMultiple(n) ==
    /\ CallerReady
    /\ Len(all_runs) + n <= MaxHistory
    /\ num_runs' = n
    /\ run_i' = 0
    /\ base_len' = Len(all_runs)
    /\ mode' = "multi"
    /\ pc' = IF n > 0 THEN "multi_setup" ELSE "save"
    /\ exc' = NoExc
    /\ outcome' = "none"
    /\ saves' = 0
    /\ log' = <<>>
    /\ UNCHANGED <<fs, data_size, results, all_runs, w, tick, report, call,
                   results_id, run_ids,
                   peer>>

\* the caller calls run_benchmark_suite() itself
CallRunBenchmarkSuite ==
    /\ CallerReady
    /\ mode' = "single"
    /\ pc' = "suite_enter"
    /\ exc' = NoExc
    /\ outcome' = "none"
    /\ log' = <<>>
    /\ UNCHANGED <<fs, data_size, results, all_runs, num_runs, run_i,
                   base_len, w, tick, report, saves, call, results_id, run_ids,
                   peer>>

\* run_multiple_benchmarks: self.setup() at the head of iteration run_i
MultiSetup ==
    /\ pc = "multi_setup"
    /\ LET r == setup(fs)
       IN  /\ fs' = r.fs
           /\ exc' = r.exc
           /\ IF r.exc = NoExc
              THEN pc' = "suite_enter" /\ outcome' = outcome
              ELSE pc' = "idle" /\ outcome' = "raised"
    /\ log' = <<>>
    /\ UNCHANGED <<data_size, results, all_runs, mode, num_runs, run_i,
                   base_len, w, tick, report, saves, call, results_id, run_ids,
                   peer>>

\* run_benchmark_suite: self.results = {}, then self.setup() inside the try
SuiteEnter ==
    /\ pc = "suite_enter"
    /\ results' = EmptyDict
    /\ results_id' = FreshDict(run_ids, results_id)
    /\ all_runs' = Aliased(all_runs, run_ids, results_id', EmptyDict)
    /\ LET r == setup(fs)
       IN  /\ fs' = r.fs
           /\ exc' = r.exc
           /\ pc' = IF r.exc = NoExc THEN "work" ELSE "finally"
    /\ w' = 1
    /\ \E d \in 0..MaxElapsed : tick' = d
    /\ log' = <<"setup">>
    /\ UNCHANGED <<data_size, mode, num_runs, run_i, base_len,
                   outcome, report, saves, call, run_ids,
                   peer>>

\* a suite that runs the workload again when it raised
AfterWork_retry(e, k) ==
    IF e = NoExc /\ k = Len(Workloads) THEN "finally" ELSE "work"

\* where run_benchmark_suite continues after workload number k ended with e:
\* an exception leaves the try block for the finally clause
AfterWork(e, k) ==
    IF e = NoExc /\ k < Len(Workloads) THEN "work" ELSE "finally"

\* run_benchmark_suite: the w-th workload and the assignment to self.results
Work ==
    /\ pc = "work"
    /\ \E fault \in FaultChoices :
         LET wl == Workloads[w]
             r == RunWorkload(wl, fs, data_size, tick, fault)
         IN  /\ fs' = r.fs
             /\ exc' = r.exc
             /\ log' = Append(log, TestId(wl, data_size))
             /\ pc' = AfterWork(r.exc, w)
             /\ IF r.exc = NoExc
                THEN /\ results' = Put(results, TestId(wl, data_size), r.ret)
                     /\ all_runs' = Aliased(all_runs, run_ids, results_id, results')
                     /\ w' = w + 1
                ELSE UNCHANGED <<results, all_runs, w>>
    /\ UNCHANGED <<data_size, mode, num_runs, run_i, base_len,
                   tick, outcome, report, saves, call, results_id, run_ids,
                   peer>>

\* run_benchmark_suite: the finally clause, then the return or the raise
Finally ==
    /\ pc = "finally"
    /\ LET r == cleanup(fs)
           e == IF r.exc # NoExc THEN r.exc ELSE exc
       IN  /\ fs' = r.fs
           /\ exc' = e
           /\ IF e # NoExc
              THEN pc' = "idle" /\ outcome' = "raised"
              ELSE IF mode = "multi"
              THEN pc' = "append" /\ outcome' = outcome
              ELSE pc' = "idle" /\ outcome' = "returned"
    /\ log' = Append(log, "cleanup")
    /\ UNCHANGED <<data_size, results, all_runs, mode, num_runs, run_i,
                   base_len, w, tick, report, saves, call, results_id, run_ids,
                   peer>>

\* a loop that goes on to the report after its first run
AfterAppend_early(i, n) == "save"

\* for i in range(num_runs): where run_multiple_benchmarks continues once i
\* runs are appended, the next iteration or the statements after the loop
AfterAppend(i, n) == IF i < n THEN "multi_setup" ELSE "save"

\* run_multiple_benchmarks: self.all_runs.append(run_results), next iteration
AppendRun ==
    /\ pc = "append"
    /\ all_runs' = Append(all_runs, results)
    /\ run_ids' = Append(run_ids, results_id)
    /\ run_i' = run_i + 1
    /\ pc' = AfterAppend(run_i + 1, num_runs)
    /\ UNCHANGED <<fs, data_size, results, mode, num_runs, base_len, w,
                   tick, log, exc, outcome, report, saves, call, results_id,
                   peer>>

\* run_multiple_benchmarks: _print_aggregated_results and _save_all_results
SaveAllResults ==
    /\ pc = "save"
    /\ LET r == results_with_metadata(all_runs)
       IN  IF AggregationError(r.aggregated_statistics)
           THEN /\ exc' = OsError("StatisticsError", "_save_all_results")
                /\ outcome' = "raised"
                /\ UNCHANGED <<report, saves>>
           ELSE /\ report' = r
                /\ saves' = saves + 1
                /\ outcome' = "returned"
                /\ exc' = NoExc
    /\ pc' = "idle"
    /\ UNCHANGED <<fs, data_size, results, all_runs, mode, num_runs,
                   run_i, base_len, w, tick, log, call, results_id, run_ids,
                   peer>>

Next ==
    \/ \E n \in 0..MaxRuns : CallRunMultiple(n)
    \/ CallRunBenchmarkSuite
    \/ MultiSetup
    \/ SuiteEnter
    \/ Work
    \/ Finally
    \/ AppendRun
    \/ SaveAllResults

Spec == Init /\ [][Next]_vars

(***************************************************************************)
(* Properties of the session.                                              *)
(***************************************************************************)
\* run_benchmark_suite has handed control back to its caller
SuiteEnded == log # <<>> /\ Last(log) = "cleanup"

\* the exception in flight was raised by a workload primitive
PrimitiveOf(kind) ==
    CASE kind = "seq_write" -> "test_sequential_write"
      [] kind = "seq_read" -> "test_sequential_read"
      [] kind = "rand_write" -> "test_random_write"
      [] kind = "rand_read" -> "test_random_read"
      [] kind = "file_creation" -> "test_file_creation"
      [] kind = "file_deletion" -> "test_file_deletion"

WorkloadFailed ==
    exc # NoExc /\ exc.what \in {PrimitiveOf(Workloads[i].kind) : i \in 1..Len(Workloads)}

\* the log of a run that executed the workloads 1..k and nothing else
LogUpTo(k) == <<"setup">> \o [i \in 1..k |-> TestId(Workloads[i], data_size)]

\* C1 as stated: whenever run_benchmark_suite has returned or raised, nothing
\* is left at the scratch path.
C1_AlwaysRemoved == SuiteEnded => fs.kind = "absent"

\* C1 amended: whenever run_benchmark_suite has returned or raised, nothing is
\* left at the scratch path, unless shutil.rmtree itself failed on it; then
\* the path is what it was, a non-directory or a directory that may not be
\* removed.
C1_RemovedUnlessRmtreeFails ==
    SuiteEnded =>
        IF exc # NoExc /\ exc.what = "rmtree"
        THEN fs.kind = "file" \/ (fs.kind = "dir" /\ fs.denied)
        ELSE fs.kind = "absent"

\* a workload raised after it had put a file into the directory, and the
\* directory is gone when the caller sees the exception
C1_Witness ==
    /\ SuiteEnded /\ outcome = "raised" /\ WorkloadFailed
    /\ exc.what = "test_file_creation" /\ fs.kind = "absent"

\* C2: once a workload has raised, the log of the run ends with that
\* workload (no later workload runs, none is retried), the finally clause is
\* the only step left, and when control is back at the caller the cleanup
\* has run, the exception is the caller's and the run is not in all_runs.
C2_FailureAbortsRun ==
    WorkloadFailed =>
        /\ exc.what = PrimitiveOf(Workloads[w].kind)
        /\ \/ pc = "finally" /\ log = LogUpTo(w)
           \/ /\ pc = "idle" /\ outcome = "raised"
              /\ log = Append(LogUpTo(w), "cleanup")
              /\ fs.kind = "absent"
              /\ mode = "multi" => Len(all_runs) = base_len + run_i

\* the seventh workload of a second run raised and the caller has the exception
C2_Witness ==
    /\ WorkloadFailed /\ pc = "idle" /\ outcome = "raised"
    /\ mode = "multi" /\ run_i = 1 /\ w = 7

\* C3: when the first workload of a run is about to start, the scratch
\* directory exists and holds no file.
C3_FreshDirectory == (pc = "work" /\ w = 1) => (fs.kind = "dir" /\ fs.files = {})

\* the first workload of the second run of a session is about to start
C3_Witness == pc = "work" /\ w = 1 /\ mode = "multi" /\ run_i = 1

\* run_multiple_benchmarks(num_runs) has completed and written its report
SessionDone == pc = "idle" /\ mode = "multi" /\ outcome = "returned" /\ saves = 1

\* every aggregated series of the report has n values and min <= mean <= max
SeriesOfLength(n) ==
    \A t \in DOMAIN report.aggregated_statistics :
        \A m \in DOMAIN report.aggregated_statistics[t] :
            LET a == report.aggregated_statistics[t][m]
            IN  Len(a.values) = n /\ RatLeq(a.min, a.mean) /\ RatLeq(a.mean, a.max)

\* C9 as stated: after run_multiple_benchmarks(N) the report says num_runs = N
\* and every series has exactly N values with min <= mean <= max, whatever the
\* object did before.
C9_LengthIsN ==
    (SessionDone /\ num_runs >= 1) =>
        (report.num_runs = num_runs /\ SeriesOfLength(num_runs))

\* C9 amended: after run_multiple_benchmarks(N) on an object whose all_runs held
\* k results of earlier runs, the report says num_runs = k + N and every series
\* has exactly k + N values with min <= mean <= max (N on a fresh object).
C9_LengthIsHistory ==
    SessionDone =>
        /\ report.num_runs = base_len + num_runs
        /\ Len(all_runs) = base_len + num_runs
        /\ SeriesOfLength(base_len + num_runs)
        /\ report.aggregated_statistics # EmptyDict \/ report.num_runs = 0

\* a second session on the same object has completed, and some series of its
\* report has a minimum below its maximum
C9_Witness ==
    /\ SessionDone /\ base_len >= 1 /\ num_runs >= 1
    /\ \E t \in DOMAIN report.aggregated_statistics :
         \E m \in DOMAIN report.aggregated_statistics[t] :
            RatLess(report.aggregated_statistics[t][m].min,
                    report.aggregated_statistics[t][m].max)

(***************************************************************************)
(* Direct calls of the workload primitives, with arbitrary arguments,      *)
(* clock readings and directory contents: one call, or a creation and then *)
(* a deletion.                                                             *)
(***************************************************************************)
PrimPaths ==
    { Path("absent", {}, FALSE),
      Path("dir", {}, FALSE),
      Path("dir", {SmallFile(0)}, FALSE),
      Path("dir", {SmallFile(0), SmallFile(1), Name("small_file_", 0, ".txt")}, FALSE),
      Path("dir", {Name("small_file_", 0, ".txt"), Name("big_file_", 0, ".bin")}, FALSE),
      Path("dir", {SmallFile(1), SmallFile(5), SmallFile(9), Name("big_file_", 0, ".bin")},
           FALSE) }

Clock == 0..MaxClock

InitPrim ==
    /\ fs \in PrimPaths
    /\ data_size \in SessionDataSizes
    /\ results = EmptyDict
    /\ all_runs = <<>>
    /\ pc = "prim"
    /\ mode = "none"
    /\ num_runs = 0
    /\ run_i = 0
    /\ base_len = 0
    /\ w = 1
    /\ tick = 0
    /\ log = <<>>
    /\ exc = NoExc
    /\ outcome = "none"
    /\ report = Nothing
    /\ saves = 0
    /\ call = NoCall
    /\ results_id = 1
    /\ run_ids = <<>>
    /\ peer = NoPeer

PrimFrame ==
    UNCHANGED <<data_size, results, all_runs, mode, num_runs, run_i, base_len, w,
                tick, log, exc, outcome, report, saves, results_id, run_ids,
                peer>>

CallSequentialWrite ==
    /\ pc = "prim"
    /\ \E file_size \in 0..MaxSize, block_size \in 0..MaxBlock, start \in Clock, end \in Clock :
         LET r == test_sequential_write(fs, file_size, block_size, start, end, {})
         IN  /\ fs' = r.fs
             /\ call' = [prim |-> "test_sequential_write", file_size |-> file_size,
                         block_size |-> block_size, start |-> start, end |-> end,
                         exc |-> r.exc, ret |-> r.ret,
                         written |-> IF r.exc = NoExc THEN r.written ELSE 0]
    /\ pc' = "called"
    /\ PrimFrame

CallSequentialRead ==
    /\ pc = "prim"
    /\ \E file_size \in 0..MaxSize, block_size \in 0..MaxBlock, start \in Clock, end \in Clock :
         LET r == test_sequential_read(fs, file_size, block_size, start, end, {})
         IN  /\ fs' = r.fs
             /\ call' = [prim |-> "test_sequential_read", file_size |-> file_size,
                         block_size |-> block_size, start |-> start, end |-> end,
                         exc |-> r.exc, ret |-> r.ret,
                         written |-> IF r.exc = NoExc THEN r.written ELSE 0]
    /\ pc' = "called"
    /\ PrimFrame

\* the draws of random.randint for the operations of one call
Draws(r, file_size, num_operations, block_size) ==
    IF r.exc = NoExc
    THEN [1..r.accesses -> IF r.accesses > 0 THEN 0..MaxDraw(file_size, block_size) ELSE {}]
    ELSE {<<>>}

CallRandom(prim) ==
    /\ pc = "prim"
    /\ \E file_size \in 0..MaxSize, num_operations \in 0..MaxOps, block_size \in 0..MaxBlock,
          start \in Clock, end \in Clock :
         LET r == IF prim = "test_random_write"
                  THEN test_random_write(fs, file_size, num_operations, block_size,
                                         start, end, {})
                  ELSE test_random_read(fs, file_size, num_operations, block_size,
                                        start, end, {})
         IN  \E draws \in Draws(r, file_size, num_operations, block_size) :
               /\ fs' = r.fs
               /\ call' = [prim |-> prim, file_size |-> file_size,
                           num_operations |-> num_operations,
                           block_size |-> block_size, start |-> start, end |-> end,
                           exc |-> r.exc, ret |-> r.ret,
                           offsets |-> [k \in DOMAIN draws |-> Offset(draws[k], block_size)],
                           flushes |-> IF r.exc = NoExc THEN r.flushes ELSE 0,
                           samples |-> IF r.exc = NoExc THEN r.samples ELSE <<>>]
    /\ pc' = "called"
    /\ PrimFrame

CallRandomWrite == CallRandom("test_random_write")

CallRandomRead == CallRandom("test_random_read")

CallFileCreation ==
    /\ pc = "prim"
    /\ \E num_files \in 0..MaxFiles, file_size \in {0, SmallFileSize},
          start \in Clock, end \in Clock :
         LET r == test_file_creation(fs, num_files, file_size, start, end, {})
         IN  /\ fs' = r.fs
             /\ call' = [prim |-> "test_file_creation", num_files |-> num_files,
                         file_size |-> file_size, start |-> start, end |-> end,
                         dir |-> fs, exc |-> r.exc, ret |-> r.ret]
             /\ pc' = IF r.exc = NoExc THEN "created" ELSE "called"
    /\ PrimFrame

CallFileDeletion ==
    /\ pc \in {"prim", "created"}
    /\ \E num_files \in 0..MaxFiles, start \in Clock, end \in Clock :
         LET r == test_file_deletion(fs, num_files, start, end, {})
         IN  /\ fs' = r.fs
             /\ call' = [prim |-> "test_file_deletion", num_files |-> num_files,
                         start |-> start, end |-> end,
                         created |-> IF pc = "created" THEN call.num_files ELSE 0,
                         created_in |-> IF pc = "created" THEN call.dir ELSE Nothing,
                         dir |-> fs, exc |-> r.exc, ret |-> r.ret]
    /\ pc' = "called"
    /\ PrimFrame

NextPrim ==
    \/ CallSequentialWrite
    \/ CallSequentialRead
    \/ CallRandomWrite
    \/ CallRandomRead
    \/ CallFileCreation
    \/ CallFileDeletion

SpecPrim == InitPrim /\ [][NextPrim]_vars

(***************************************************************************)
(* Properties of the workload primitives.                                  *)
(***************************************************************************)
Returned(prims) == call.prim \in prims /\ call.exc = NoExc

\* the names of a directory that match small_file_*.bin
Matching(f) == {n \in f.files : n[1] = "small_file_" /\ n[3] = ".bin"}

\* C4: test_file_deletion reports as files_deleted the number of files named
\* small_file_*.bin that are in the directory when it lists it, whatever its
\* num_files argument and whatever number of files was created before.
C4_DeletedIsListed ==
    Returned({"test_file_deletion"}) =>
        call.ret.files_deleted = Num(Cardinality(Matching(call.dir)))

\* a deletion found four matching files next to another file, after a
\* creation of two files and with another num_files argument
C4_Witness ==
    /\ Returned({"test_file_deletion"})
    /\ call.ret.files_deleted = Num(4)
    /\ call.created = 2 /\ call.num_files = 1
    /\ call.dir.files # Matching(call.dir)

\* C5: every offset a random-access primitive accesses lies in
\* 0..file_size - block_size and is a multiple of block_size.
C5_OffsetsAligned ==
    Returned({"test_random_write", "test_random_read"}) =>
        \A k \in DOMAIN call.offsets :
            /\ 0 <= call.offsets[k]
            /\ call.offsets[k] <= call.file_size - call.block_size
            /\ call.offsets[k] % call.block_size = 0

\* a random write of two operations accessed the last block of its file and
\* then the first
C5_Witness ==
    /\ Returned({"test_random_write"})
    /\ call.num_operations = 2 /\ call.block_size = 2 /\ call.file_size = 4
    /\ Len(call.offsets) = 2
    /\ call.offsets[1] = 2 /\ call.offsets[2] = 0

\* the figure a primitive reports per second, and what it is counted from
Throughput(c) ==
    CASE c.prim \in {"test_sequential_write", "test_sequential_read"} ->
            <<c.ret.speed_bytes_per_sec, c.file_size>>
      [] c.prim \in {"test_random_write", "test_random_read"} ->
            <<c.ret.iops, c.num_operations>>
      [] c.prim = "test_file_creation" -> <<c.ret.files_per_sec, c.num_files>>
      [] c.prim = "test_file_deletion" -> <<c.ret.files_per_sec, c.ret.files_deleted.num>>

\* C6: for every primitive and every pair of clock readings the reported
\* duration_sec is not negative, and the reported throughput is the amount
\* divided by the duration, or 0 when the duration is 0.
C6_DurationAndThroughput ==
    Returned({"test_sequential_write", "test_sequential_read", "test_random_write",
              "test_random_read", "test_file_creation", "test_file_deletion"}) =>
        LET d == call.ret.duration_sec
            t == Throughput(call)
        IN  /\ RatLeq(Num(0), d)
            /\ IF d = Num(0) THEN t[1] = Num(0)
               ELSE t[1].num * d.num = t[2] * d.den * t[1].den

\* C7: in the results of a run every size class of the sequential ladder
\* records the same total_bytes, the configured data volume.
C7_SameTotalBytes ==
    \A id \in DOMAIN results :
        id[1] \in {"seq_write_", "seq_read_"} => results[id].total_bytes = Num(data_size)

(***************************************************************************)
(* The aggregation applied to arbitrary run histories, and                 *)
(* _calculate_statistics applied to arbitrary series.                      *)
(***************************************************************************)
SeriesValues == {Num(1), Num(3)}
MetricValues == SeriesValues \cup {Str("text")}
SeriesMetrics == {"duration_sec", "files_per_sec"}

\* a MetricRecord holding some of the metrics
MetricRecords == UNION {[ms -> MetricValues] : ms \in SUBSET SeriesMetrics}

\* a RunResult with or without the test identifier
RunResults == {EmptyDict} \cup {[t \in {<<"file_creation">>} |-> rec] : rec \in MetricRecords}

Histories == UNION {[1..n -> RunResults] : n \in 0..MaxSeries}

InitAgg ==
    /\ fs = Path("absent", {}, FALSE)
    /\ data_size \in SessionDataSizes
    /\ results = EmptyDict
    /\ all_runs \in Histories
    /\ pc = "save"
    /\ mode = "multi"
    /\ num_runs = 0
    /\ run_i = 0
    /\ base_len = Len(all_runs)
    /\ w = 1
    /\ tick = 0
    /\ log = <<>>
    /\ exc = NoExc
    /\ outcome = "none"
    /\ report = Nothing
    /\ saves = 0
    /\ call = NoCall
    /\ run_ids = [i \in 1..Len(all_runs) |-> i]
    /\ results_id = Len(all_runs) + 1
    /\ peer = NoPeer

\* a direct call of _calculate_statistics(values), which reads nothing of the
\* object, on a fresh object
CallCalculateStatistics ==
    /\ pc = "save"
    /\ all_runs = <<>>
    /\ \E n \in 0..MaxSeries : \E values \in [1..n -> SeriesValues] :
         call' = [prim |-> "_calculate_statistics", values |-> values,
                  ret |-> _calculate_statistics(values)]
    /\ pc' = "called"
    /\ UNCHANGED <<fs, data_size, results, all_runs, mode, num_runs, run_i,
                   base_len, w, tick, log, exc, outcome, report, saves,
                   results_id, run_ids,
                   peer>>

NextAgg == SaveAllResults \/ CallCalculateStatistics

SpecAgg == InitAgg /\ [][NextAgg]_vars

\* _save_all_results has run on the history
Saved == pc = "idle" /\ mode = "multi"

\* C8: a series of fewer than two values has std_dev 0, in the report and in
\* what _calculate_statistics returns, and no series of any length, the
\* empty one included, makes the computation raise.
C8_StdDevOfShortSeries ==
    /\ Saved =>
         /\ outcome = "returned"
         /\ \A t \in DOMAIN report.aggregated_statistics :
              \A m \in DOMAIN report.aggregated_statistics[t] :
                 LET a == report.aggregated_statistics[t][m]
                 IN  Len(a.values) < 2 => a.std_dev = Num(0)
    /\ call.prim = "_calculate_statistics" =>
         /\ ~IsError(call.ret.mean) /\ ~IsError(call.ret.std_dev)
         /\ Len(call.values) < 2 => call.ret.std_dev = Num(0)

\* the report of a history of three runs has a series of a single value
C8_Witness ==
    /\ Saved /\ outcome = "returned" /\ Len(all_runs) = 3
    /\ \E t \in DOMAIN report.aggregated_statistics :
         \E m \in DOMAIN report.aggregated_statistics[t] :
            /\ Len(report.aggregated_statistics[t][m].values) = 1
            /\ report.aggregated_statistics[t][m].std_dev = Num(0)

\* the runs of the history that hold a number for metric m of test t
RunsWith(t, m) ==
    {i \in 1..Len(all_runs) :
        /\ t \in DOMAIN all_runs[i]
        /\ m \in DOMAIN all_runs[i][t]
        /\ "num" \in DOMAIN all_runs[i][t][m]}

\* the k-th smallest element of a set of numbers
Kth(S, k) == CHOOSE i \in S : Cardinality({j \in S : j <= i}) = k

\* C10: the aggregation of any history succeeds, and the series of a metric
\* holds, in run order, one value for each run that has a number for it and
\* none for the others; the mean is the mean of just these values.
C10_AggregatesPresentRuns ==
    Saved =>
        /\ outcome = "returned"
        /\ \A i \in 1..Len(all_runs) : \A t \in DOMAIN all_runs[i] :
             \A m \in DOMAIN all_runs[i][t] :
                i \in RunsWith(t, m) =>
                    /\ t \in DOMAIN report.aggregated_statistics
                    /\ m \in DOMAIN report.aggregated_statistics[t]
        /\ \A t \in DOMAIN report.aggregated_statistics :
             \A m \in DOMAIN report.aggregated_statistics[t] :
                LET a == report.aggregated_statistics[t][m]
                    present == RunsWith(t, m)
                IN  /\ Len(a.values) = Cardinality(present)
                    /\ \A k \in 1..Len(a.values) :
                         a.values[k] = all_runs[Kth(present, k)][t][m]
                    /\ a.mean.num * Len(a.values) = SumSeq(a.values).num * a.mean.den

\* a metric is missing from the first of three runs and the other two give
\* it different values
C10_Witness ==
    /\ Saved /\ outcome = "returned" /\ Len(all_runs) = 3
    /\ RunsWith(<<"file_creation">>, "files_per_sec") = {2, 3}
    /\ report.aggregated_statistics[<<"file_creation">>]["files_per_sec"].values
         = <<Num(3), Num(1)>>

(***************************************************************************)
(* Further properties of the session.                                      *)
(***************************************************************************)
\* the test identifiers of the suite
SuiteIds == {TestId(Workloads[k], data_size) : k \in 1..Len(Workloads)}

\* C11: every RunResult in all_runs has the same set of test identifiers, one
\* for each of the fourteen workloads of the suite, and while a run goes on
\* self.results holds one entry for each workload that has returned: no
\* workload stores its result under the identifier of another.
C11_SameIdsNoOverwrite ==
    /\ Cardinality(SuiteIds) = Len(Workloads)
    /\ \A i \in 1..Len(all_runs) : DOMAIN all_runs[i] = SuiteIds
    /\ pc \in {"work", "finally", "append"} =>
          /\ Cardinality(DOMAIN results) = w - 1
          /\ DOMAIN results = {TestId(Workloads[k], data_size) : k \in 1..(w - 1)}

\* two runs are in the history and a third, of a later session or a direct
\* call, has stored the results of its first nine workloads
C11_Witness ==
    /\ Len(all_runs) = 2 /\ pc = "work" /\ w = 10
    /\ Cardinality(DOMAIN results) = 9

\* OSError and the subclasses of it that the file operations raise
OsErrorTypes ==
    {"OSError", "FileNotFoundError", "FileExistsError", "NotADirectoryError",
     "PermissionError"}

\* a call of run_benchmark_suite or run_multiple_benchmarks has ended with an
\* exception at the caller
FailureDelivered == pc = "idle" /\ outcome = "raised"

\* the workloads of the suite whose failure hands the caller the exception e:
\* those that call the primitive e was raised in
RaisedBy(e) == {k \in 1..Len(Workloads) : PrimitiveOf(Workloads[k].kind) = e.what}

\* C15 as stated: a failure of setup or of a workload reaches the caller as an
\* exception that carries the OS error and, for a workload, tells which
\* workload of the suite failed.
C15_CarriesWorkloadIdentity ==
    FailureDelivered =>
        /\ exc.type \in OsErrorTypes
        /\ WorkloadFailed => RaisedBy(exc) = {w}

\* C15 amended: a failure of setup or of a workload is never swallowed and
\* reaches the caller as the OS error of the failing call, unwrapped: it tells
\* the call that raised (rmtree or mkdir, or the workload primitive) and
\* carries nothing else, so it fits every workload that uses the primitive.
C15_RaisesBareError ==
    /\ exc # NoExc => (pc = "finally" \/ FailureDelivered)
    /\ (pc = "idle" /\ outcome = "returned" /\ mode = "single") =>
          log = Append(LogUpTo(Len(Workloads)), "cleanup")
    /\ FailureDelivered =>
          /\ DOMAIN exc = {"type", "what"}
          /\ exc.type \in OsErrorTypes
          /\ IF WorkloadFailed
             THEN /\ exc.what = PrimitiveOf(Workloads[w].kind)
                  /\ w \in RaisedBy(exc)
                  /\ RaisedBy(exc) =
                        {k \in 1..Len(Workloads) : Workloads[k].kind = Workloads[w].kind}
             ELSE exc.what \in {"rmtree", "mkdir"}

\* the second size class of the sequential writes failed, and the caller has
\* an OSError that fits each of the four classes
C15_Witness ==
    /\ FailureDelivered /\ WorkloadFailed /\ w = 2
    /\ exc = IoError("test_sequential_write")
    /\ RaisedBy(exc) = {1, 2, 3, 4}

\* C16: the report that _save_all_results writes has a name, so that the
\* plots file it under a label of its own and not under the default, it has
\* the aggregated statistics, and each aggregated metric has exactly the
\* fields mean, std_dev, min, max and values.
C16_ReportHasLabel ==
    report # Nothing =>
        /\ "aggregated_statistics" \in DOMAIN report
        /\ \A t \in DOMAIN report.aggregated_statistics :
             \A m \in DOMAIN report.aggregated_statistics[t] :
                DOMAIN report.aggregated_statistics[t][m]
                    = {"mean", "std_dev", "min", "max", "values"}
        /\ "name" \in DOMAIN report
        /\ PlotKey(report) # "Unknown"

\* the exception in flight or delivered comes from removing or creating the
\* scratch directory
ScratchDirFailed == exc # NoExc /\ exc.what \in {"rmtree", "mkdir"}

\* C17: when removing or creating the scratch directory fails, no workload
\* runs after the failed setup (the log of the run has the setup and at most
\* the cleanup), only the finally clause is left to run before the exception
\* is the caller's, and a session neither records the run nor goes on to
\* another run or to the report.
C17_SetupFailureIsFatal ==
    ScratchDirFailed =>
        /\ log \in {<<>>, <<"setup">>, <<"setup", "cleanup">>}
        /\ results = EmptyDict \/ log = <<>>
        /\ \/ pc = "finally" /\ log = <<"setup">>
           \/ FailureDelivered /\ log # <<"setup">>
        /\ mode = "multi" =>
              /\ Len(all_runs) = base_len + run_i
              /\ saves = 0

\* a session of two runs found a regular file at the scratch path: its first
\* setup failed and the caller has the exception
C17_Witness ==
    /\ ScratchDirFailed /\ FailureDelivered
    /\ mode = "multi" /\ num_runs = 2 /\ run_i = 0
    /\ exc.type = "NotADirectoryError" /\ fs.kind = "file"

\* the place of a test identifier's group in the order C19 gives
Rank(id) ==
    CASE id[1] = "seq_write_" -> 1
      [] id[1] = "seq_read_" -> 2
      [] id[1] = "rand_write_" -> 3
      [] id[1] = "rand_read_" -> 4
      [] id[1] = "file_creation" -> 5
      [] id[1] = "file_deletion" -> 6

\* the positions of the log that hold the workloads of the run
WorkloadSteps == 2..(Len(log) - (IF SuiteEnded THEN 1 ELSE 0))

\* the suite has run all its workloads and left the try block
RunCompleted ==
    \/ pc = "append"
    \/ pc = "idle" /\ outcome = "returned" /\ mode = "single"

\* C19: the workloads of a run are logged one after the other between the
\* setup and the cleanup, none twice, the groups in the order sequential
\* writes, sequential reads, random writes, random reads, creation, deletion:
\* a complete run has 4, 4, 2, 2, 1 and 1 of them.  The step before the
\* deletion is the creation, and the deletion removes as many files as the
\* creation made.
C19_WorkloadOrder ==
    /\ \A i \in WorkloadSteps : log[i] # "setup" /\ log[i] # "cleanup"
    /\ \A i, j \in WorkloadSteps :
          i < j => (Rank(log[i]) <= Rank(log[j]) /\ log[i] # log[j])
    /\ \A i \in WorkloadSteps :
          log[i] = <<"file_deletion">> => (i - 1 \in WorkloadSteps /\ log[i - 1] = <<"file_creation">>)
    /\ RunCompleted =>
          /\ log[1] = "setup" /\ SuiteEnded
          /\ [r \in 1..6 |-> Cardinality({i \in WorkloadSteps : Rank(log[i]) = r})]
                = <<4, 4, 2, 2, 1, 1>>
    /\ <<"file_deletion">> \in DOMAIN results =>
          /\ <<"file_creation">> \in DOMAIN results
          /\ results[<<"file_deletion">>].files_deleted
                = results[<<"file_creation">>].files_created

\* a suite called directly has returned: creation and deletion were its last
\* two workloads and the deletion removed the 5000 files
C19_Witness ==
    /\ pc = "idle" /\ outcome = "returned" /\ mode = "single"
    /\ Len(log) = 16
    /\ log[14] = <<"file_creation">> /\ log[15] = <<"file_deletion">>
    /\ results[<<"file_deletion">>].files_deleted = Num(SuiteFiles)

\* a run of the suite is between its reset of self.results and its return
SuiteRunning == pc \in {"work", "finally", "append"}

\* C20: the dict a run fills is a new object, none of the entries of
\* all_runs; no two entries of all_runs are the same object; and no step of
\* the program, the reset and the stores of a later run included, changes or
\* removes an entry that all_runs holds.
C20_AppendedRunsAreFrozen ==
    /\ [](/\ Len(run_ids) = Len(all_runs)
          /\ \A i, j \in 1..Len(run_ids) : i # j => run_ids[i] # run_ids[j]
          /\ SuiteRunning => \A i \in 1..Len(run_ids) : run_ids[i] # results_id)
    /\ [][/\ Len(all_runs') >= Len(all_runs)
          /\ \A i \in 1..Len(all_runs) :
                all_runs'[i] = all_runs[i] /\ run_ids'[i] = run_ids[i]]_vars

\* the second run of a session has stored the results of four workloads in
\* a dict that is not the one the first run appended
C20_Witness ==
    /\ mode = "multi" /\ run_i = 1 /\ pc = "work" /\ w = 5
    /\ Len(all_runs) = 1 /\ run_ids = <<1>> /\ results_id = 2
    /\ Cardinality(DOMAIN results) = 4
    /\ Cardinality(DOMAIN all_runs[1]) = Len(Workloads)

(***************************************************************************)
(* Further properties of the workload primitives.                          *)
(***************************************************************************)
\* test_file_deletion was called right after a test_file_creation that had
\* found the scratch directory as setup leaves it: existing and empty
DeletedAfterFreshCreation ==
    /\ call.prim = "test_file_deletion"
    /\ call.created_in = Path("dir", {}, FALSE)

\* C12: test_file_creation(N, size) in an empty scratch directory followed by
\* test_file_deletion: the deletion returns, reports files_deleted = N
\* whatever its own num_files argument, and leaves no file named
\* small_file_*.bin in the directory.
C12_CreateThenDelete ==
    DeletedAfterFreshCreation =>
        /\ call.exc = NoExc
        /\ call.ret.files_deleted = Num(call.created)
        /\ Cardinality(Matching(call.dir)) = call.created
        /\ Matching(fs) = {}

\* two files were created in an empty directory and a deletion called with
\* num_files = 1 removed both
C12_Witness ==
    /\ DeletedAfterFreshCreation /\ call.exc = NoExc
    /\ call.created = 2 /\ call.num_files = 1
    /\ call.ret.files_deleted = Num(2) /\ fs.files = {}

\* C13: a test_sequential_write with block_size >= 1 that returns has written
\* exactly file_size bytes, and the speed it reports over a positive duration
\* is the number of bytes it wrote divided by that duration.
C13_WritesFileSize ==
    (Returned({"test_sequential_write"}) /\ call.block_size >= 1) =>
        /\ call.written = call.file_size
        /\ call.end > call.start =>
              call.ret.speed_bytes_per_sec.num * (call.end - call.start)
                  = call.written * call.ret.speed_bytes_per_sec.den

\* what C14 says of a test_random_write that returned, but for the latency
\* samples: num_operations block writes, one flush, operations =
\* num_operations, and over a positive duration iops = num_operations / elapsed
RandomWriteCounts ==
    /\ Len(call.offsets) = call.num_operations
    /\ call.flushes = 1
    /\ call.ret.operations = Num(call.num_operations)
    /\ call.end > call.start =>
          call.ret.iops.num * (call.end - call.start)
              = call.num_operations * call.ret.iops.den

\* C14 as stated: a test_random_write that returned did num_operations block
\* writes and one flush, recorded one latency sample per operation, and
\* reports operations = num_operations and iops = num_operations / elapsed.
C14_OneSamplePerOperation ==
    Returned({"test_random_write"}) =>
        (RandomWriteCounts /\ Len(call.samples) = call.num_operations)

\* C14 amended: a test_random_write that returned did num_operations block
\* writes and one flush, recorded no latency of a single operation, and
\* reports operations = num_operations, iops = num_operations / elapsed over
\* a positive duration and 0 otherwise, and as avg_latency_ms the duration
\* in milliseconds divided by num_operations, or 0 when num_operations is 0.
C14_AverageLatencyOnly ==
    Returned({"test_random_write"}) =>
        /\ RandomWriteCounts
        /\ call.samples = <<>>
        /\ call.end <= call.start => call.ret.iops = Num(0)
        /\ IF call.num_operations = 0 THEN call.ret.avg_latency_ms = Num(0)
           ELSE call.ret.avg_latency_ms.num * call.num_operations
                    = (call.end - call.start) * 1000 * call.ret.avg_latency_ms.den
        /\ DOMAIN call.ret = {"duration_sec", "iops", "avg_latency_ms", "operations"}

\* a random write of two operations took one tick and reports 2 operations
\* per tick and an average latency of 500 ms
C14_Witness ==
    /\ Returned({"test_random_write"})
    /\ call.num_operations = 2 /\ call.end - call.start = 1
    /\ call.flushes = 1 /\ Len(call.offsets) = 2
    /\ call.ret.iops = Num(2) /\ call.ret.avg_latency_ms = Num(500)

(***************************************************************************)
(* Further properties of the aggregation.                                  *)
(***************************************************************************)
\* the histories whose runs record at most the duration of the test, as a
\* number or as a text, or lack the test: one series, aggregated on its own
InitOrder ==
    /\ InitAgg
    /\ \A i \in 1..Len(all_runs) : \A t \in DOMAIN all_runs[i] :
          DOMAIN all_runs[i][t] \subseteq {"duration_sec"}

NextOrder == SaveAllResults

SpecOrder == InitOrder /\ [][NextOrder]_vars

\* the orders in which n runs can be arranged
RunOrders(n) == {p \in [1..n -> 1..n] : \A i, j \in 1..n : i # j => p[i] # p[j]}

\* the history with its runs arranged by p
Permuted(runs, p) == [i \in 1..Len(runs) |-> runs[p[i]]]

\* what of an aggregation the claim says does not depend on the order
MeanMinMax(agg) ==
    [t \in DOMAIN agg |->
        [m \in DOMAIN agg[t] |->
            [mean |-> agg[t][m].mean, min |-> agg[t][m].min, max |-> agg[t][m].max]]]

\* C18: aggregating the runs of the history in any other order gives the same
\* pairs of test identifier and metric and, for each pair, the same mean, min
\* and max; the values of the report are those of the runs in the order of
\* the history, the k-th value being that of the k-th run that has the metric.
C18_OrderIndependent ==
    (Saved /\ outcome = "returned") =>
        /\ \A p \in RunOrders(Len(all_runs)) :
             MeanMinMax(aggregated_stats(Permuted(all_runs, p)))
                 = MeanMinMax(report.aggregated_statistics)
        /\ \A t \in DOMAIN report.aggregated_statistics :
             \A m \in DOMAIN report.aggregated_statistics[t] :
                LET present == RunsWith(t, m)
                IN  report.aggregated_statistics[t][m].values
                        = [k \in 1..Cardinality(present) |-> all_runs[Kth(present, k)][t][m]]

\* the runs of a history of three gave a metric the values 3, 1, 3 in this
\* order; in another order of the runs the values are listed differently
C18_Witness ==
    /\ Saved /\ outcome = "returned" /\ Len(all_runs) = 3
    /\ RunsWith(<<"file_creation">>, "duration_sec") = {1, 2, 3}
    /\ LET a == report.aggregated_statistics[<<"file_creation">>]["duration_sec"]
       IN  /\ a.values = <<Num(3), Num(1), Num(3)>>
           /\ a.mean = Rat(7, 3) /\ a.min = Num(1) /\ a.max = Num(3)
    /\ \E p \in RunOrders(3) :
         aggregated_stats(Permuted(all_runs, p))[<<"file_creation">>]["duration_sec"].values
             = <<Num(1), Num(3), Num(3)>>

(***************************************************************************)
(* Two processes, each with its own FileIOBenchmark object and its own     *)
(* scratch path, neither path inside the other, started in the same        *)
(* working directory or in two.  The variables of the session hold the     *)
(* state of the process that is running; peer.other holds the state of the *)
(* one that waits.  report is benchmark_results.json in the working        *)
(* directory of the running process.                                       *)
(***************************************************************************)
MaxPeerRuns == 1    \* num_runs of each of the two processes ranges over 0..MaxPeerRuns

\* what belongs to the running process: its object, its scratch path, its
\* position, and the report file of its working directory
Local ==
    [fs |-> fs, data_size |-> data_size, results |-> results, all_runs |-> all_runs,
     pc |-> pc, mode |-> mode, num_runs |-> num_runs, run_i |-> run_i,
     base_len |-> base_len, w |-> w, tick |-> tick, log |-> log, exc |-> exc,
     outcome |-> outcome, saves |-> saves, call |-> call,
     results_id |-> results_id, run_ids |-> run_ids, report |-> report]

InitTwo ==
    /\ fs = Path("absent", {}, FALSE)
    /\ data_size \in SessionDataSizes
    /\ results = EmptyDict
    /\ all_runs = <<>>
    /\ pc = "idle"
    /\ mode = "none"
    /\ num_runs = 0
    /\ run_i = 0
    /\ base_len = 0
    /\ w = 1
    /\ tick = 0
    /\ log = <<>>
    /\ exc = NoExc
    /\ outcome = "none"
    /\ report = Nothing
    /\ saves = 0
    /\ call = NoCall
    /\ results_id = 1
    /\ run_ids = <<>>
    /\ \E shared \in BOOLEAN : peer = [id |-> 1, same_cwd |-> shared, other |-> Local]

\* the scheduler takes the running process off and puts the other one on:
\* a file of a shared working directory stays, everything else is exchanged
Switch ==
    /\ fs' = peer.other.fs
    /\ data_size' = peer.other.data_size
    /\ results' = peer.other.results
    /\ all_runs' = peer.other.all_runs
    /\ pc' = peer.other.pc
    /\ mode' = peer.other.mode
    /\ num_runs' = peer.other.num_runs
    /\ run_i' = peer.other.run_i
    /\ base_len' = peer.other.base_len
    /\ w' = peer.other.w
    /\ tick' = peer.other.tick
    /\ log' = peer.other.log
    /\ exc' = peer.other.exc
    /\ outcome' = peer.other.outcome
    /\ saves' = peer.other.saves
    /\ call' = peer.other.call
    /\ results_id' = peer.other.results_id
    /\ run_ids' = peer.other.run_ids
    /\ report' = IF peer.same_cwd THEN report ELSE peer.other.report
    /\ peer' = [id |-> 3 - peer.id, same_cwd |-> peer.same_cwd,
                other |-> [Local EXCEPT !.report = IF peer.same_cwd THEN Nothing ELSE report]]

\* a process calls run_multiple_benchmarks on its new object, once, as main()
PeerCallRunMultiple ==
    /\ outcome = "none"
    /\ \E n \in 0..MaxPeerRuns : CallRunMultiple(n)

NextTwo ==
    \/ PeerCallRunMultiple
    \/ MultiSetup
    \/ SuiteEnter
    \/ Work
    \/ Finally
    \/ AppendRun
    \/ SaveAllResults
    \/ Switch

SpecTwo == InitTwo /\ [][NextTwo]_vars

\* benchmark_results.json in the working directory of the waiting process
OtherReport == IF peer.same_cwd THEN report ELSE peer.other.report

\* that file is a report the waiting process wrote
OtherWroteReport ==
    /\ OtherReport # Nothing
    /\ OtherReport.test_directory = Str(TestDirOf(3 - peer.id))

\* C21: no step of the running process changes the scratch directory of the
\* waiting process, its all_runs, or the report the waiting process wrote.
C21_NoInterference ==
    [][peer'.id = peer.id =>
          /\ peer'.other.fs = peer.other.fs
          /\ peer'.other.all_runs = peer.other.all_runs
          /\ OtherWroteReport => OtherReport' = OtherReport]_vars

\* run_multiple_benchmarks is in run run_i + 1 of num_runs and that run has
\* failed: the exception is on its way through the finally clause or has
\* reached the caller
RunFailed == mode = "multi" /\ exc # NoExc /\ run_i < num_runs

\* the report is written at most once in a call of run_multiple_benchmarks,
\* and only when all num_runs runs are completed and appended
SavedOnceAtTheEnd ==
    mode = "multi" =>
        /\ saves <= 1
        /\ (pc = "save" \/ saves = 1) =>
              /\ run_i = num_runs
              /\ Len(all_runs) = base_len + num_runs
              /\ exc = NoExc \/ pc = "idle"

\* C22 as stated: the report is written at most once and only after all N
\* runs are completed and appended; when run k fails the call ends without a
\* further run and without a report, and all_runs holds exactly the k-1
\* results of the runs before it.
C22_HoldsEarlierRunsOnly ==
    /\ SavedOnceAtTheEnd
    /\ RunFailed =>
          /\ pc \in {"finally", "idle"}
          /\ saves = 0
          /\ Len(all_runs) = run_i

\* C22 amended: the report is written at most once and only after all N runs
\* are completed and appended; when run k fails the call ends without a
\* further run and without a report, and all_runs holds what it held when
\* the call began followed by the k-1 results of the runs before the failed
\* one (exactly those k-1 on a fresh object).
C22_HistoryPlusEarlierRuns ==
    /\ SavedOnceAtTheEnd
    /\ RunFailed =>
          /\ pc \in {"finally", "idle"}
          /\ pc = "idle" => outcome = "raised"
          /\ saves = 0
          /\ Len(all_runs) = base_len + run_i
          /\ Len(run_ids) = Len(all_runs)

\* the second run of a session of two failed in a workload: the caller has
\* the exception and all_runs has the first run alone
C22_Witness ==
    /\ RunFailed /\ FailureDelivered /\ WorkloadFailed
    /\ num_runs = 2 /\ run_i = 1 /\ base_len = 0
    /\ Len(all_runs) = 1 /\ saves = 0

====
